---- MODULE Spec2Model ----
(***************************************************************************)
(* Model of src/app.py: the SSB unemployment page.                         *)
(*   - fetch_ssb_data: one HTTP POST, then the flattening of the json-stat *)
(*     body into a table, behind a single-entry cache with a TTL;          *)
(*   - get_ai_insight: the guarded call of the generative-text service;    *)
(*   - the page script: credential setup, data load, five views.           *)
(* Python values are tagged records, so that an int, a str, None and NaN   *)
(* stay distinct values: [t |-> "int", v |-> 3], [t |-> "str", v |-> "a"]. *)
(* The letters o-slash and a-ring of the labels are written o and aa.      *)
(***************************************************************************)
EXTENDS Integers, Sequences, FiniteSets, TLC

VARIABLES
    pc,             \* position of the page script (one rerun at a time)
    resp,           \* what requests.post / response.json() last produced
    df,             \* the value fetch_ssb_data returned to the script
    errors,         \* the st.error messages shown by fetch_ssb_data calls
    posts,          \* number of HTTP POSTs issued to the statistics API
    raised,         \* TRUE when an exception escaped a function to its caller
    cache,          \* the st.cache_data cell of fetch_ssb_data
    now,            \* the cache's clock, in seconds
    from_cache,     \* TRUE when the last load was served from the cache
    env_key,        \* os.getenv("GEMINI_API_KEY")
    api_key_input,  \* value of the sidebar text_input widget
    session_key,    \* st.session_state.get("GEMINI_API_KEY")
    session,        \* which browser session the script runs for
    views,          \* what the current rerun has rendered, in order
    insight,        \* last value returned by get_ai_insight
    configured,     \* number of genai.configure calls
    ai_calls,       \* number of model.generate_content calls
    ai_request      \* the last full_prompt handed to generate_content

vars == <<pc, resp, df, errors, posts, raised, cache, now, from_cache, env_key,
          api_key_input, session_key, session, views, insight, configured,
          ai_calls, ai_request>>

(***************************************************************************)
(* Bounds of the model.                                                    *)
(***************************************************************************)
MaxAxisLen == 2      \* most category codes in one dimension's index
MaxValueLen == 4     \* longest 'value' array of a response body
MaxCalls == 3        \* most direct calls of get_ai_insight in one run
MaxClock == 7200     \* the clock stops advancing here
TickStep == 1800     \* seconds between two observations of the clock
MaxSessions == 2     \* browser sessions served one after the other

(***************************************************************************)
(* Python values.                                                          *)
(***************************************************************************)
None == [t |-> "none"]
NaN == [t |-> "nan"]
PyInt(n) == [t |-> "int", v |-> n]
PyStr(s) == [t |-> "str", v |-> s]

\* bool(x) for None, str and int.
Truthy(x) ==
    CASE x.t = "str" -> x.v # ""
      [] x.t = "int" -> x.v # 0
      [] OTHER -> FALSE

\* An ordered dict is a sequence of entries [k, v]; keys are unique.
Entry(k, v) == [k |-> k, v |-> v]
Keys(d) == [i \in 1..Len(d) |-> d[i].k]
HasKey(d, k) == \E i \in 1..Len(d) : d[i].k = k
\* d.get(k, default)
DictGet(d, k, default) ==
    IF HasKey(d, k)
    THEN d[CHOOSE i \in 1..Len(d) : d[i].k = k].v
    ELSE default

RECURSIVE Concat(_)
\* The lists of ss appended one after the other.
Concat(ss) == IF ss = <<>> THEN <<>> ELSE Head(ss) \o Concat(Tail(ss))

(***************************************************************************)
(* fetch_ssb_data: the transform of a parsed body (lines 55-105).          *)
(***************************************************************************)
AxisNames == {"Tid", "Kjonn", "Alder"}

gender_map == [c \in {"0", "1", "2"} |->
                 CASE c = "0" -> "Begge kjonn"
                   [] c = "1" -> "Menn"
                   [] c = "2" -> "Kvinner"]

\* What int() makes of the strings of the model that are integer literals.
IntLiteral == [s \in {"2014", "2020", "2021"} |->
                 CASE s = "2014" -> 2014
                   [] s = "2020" -> 2020
                   [] s = "2021" -> 2021]

\* An outcome of a computation that can raise: a value or an exception.
Ok(v) == [ok |-> TRUE, val |-> v]
Raise(e) == [ok |-> FALSE, exc |-> e]

\* data[key] on a body, for the keys the code reads.
BodyHas(body, key) ==
    CASE key = "dimension" -> body.has_dimension
      [] key = "value" -> body.has_value

\* dimensions[axis]["category"]["label"] if "label" in ... else [...]["index"]
AxisLabels(body, axis) ==
    IF axis \notin body.axes THEN Raise("KeyError")
    ELSE LET cat == body.category[axis] IN
         IF cat.has_label THEN Ok(cat.label)
         ELSE IF cat.has_index THEN Ok(cat.index)
         ELSE Raise("KeyError")

\* list(dimensions[axis]["category"]["index"].keys())
AxisIndices(body, axis) ==
    IF axis \notin body.axes THEN Raise("KeyError")
    ELSE LET cat == body.category[axis] IN
         IF cat.has_index THEN Ok(Keys(cat.index)) ELSE Raise("KeyError")

\* time_labels.get(year_code, year_code); age_labels.get(age_code, age_code)
LabelOf(labels, code) == DictGet(labels, code, PyStr(code))

GenderLabelUnmapped(gender_code) == PyStr(gender_code)
\* gender_map.get(gender_code, gender_code)
GenderLabel(gender_code) ==
    IF gender_code \in DOMAIN gender_map
    THEN PyStr(gender_map[gender_code])
    ELSE PyStr(gender_code)

PosGenderStride(time_idx, gender_idx, age_idx, n_gender, n_age) ==
    (time_idx * n_gender * n_age) + (gender_idx * n_gender) + age_idx
\* pos = time_idx*len(gender_indices)*len(age_indices)
\*       + gender_idx*len(age_indices) + age_idx
Pos(time_idx, gender_idx, age_idx, n_gender, n_age) ==
    (time_idx * n_gender * n_age) + (gender_idx * n_age) + age_idx

\* values[pos]: a list raises IndexError past its end.
ListGet(values, pos) ==
    IF pos < Len(values) THEN Ok(values[pos + 1]) ELSE Raise("IndexError")

\* value = values[pos] if pos < len(values) else None
ValueAt(values, pos) ==
    IF pos < Len(values) THEN ListGet(values, pos) ELSE Ok(None)

\* The three nested loops, appending one row per combination; an exception
\* raised while reading a value ends them.
Records(time_indices, gender_indices, age_indices, time_labels, age_labels, values) ==
    LET Row(ti, gi, ai) ==
            [year |-> LabelOf(time_labels, time_indices[ti]),
             gender |-> GenderLabel(gender_indices[gi]),
             age_group |-> LabelOf(age_labels, age_indices[ai]),
             count |-> ValueAt(values,
                               Pos(ti - 1, gi - 1, ai - 1,
                                   Len(gender_indices), Len(age_indices)))]
        AgeLoop(ti, gi) == [ai \in 1..Len(age_indices) |-> Row(ti, gi, ai)]
        GenderLoop(ti) ==
            Concat([gi \in 1..Len(gender_indices) |-> AgeLoop(ti, gi)])
        rows == Concat([ti \in 1..Len(time_indices) |-> GenderLoop(ti)])
    IN  IF \E i \in 1..Len(rows) : ~rows[i].count.ok
        THEN Raise("IndexError")
        ELSE Ok([i \in 1..Len(rows) |-> [rows[i] EXCEPT !.count = @.val]])

\* int(x) succeeds on an int and on a str that is an integer literal.
CanInt(x) == x.t = "int" \/ (x.t = "str" /\ x.v \in DOMAIN IntLiteral)
AsInt(x) == IF x.t = "int" THEN x.v ELSE IntLiteral[x.v]

\* pd.to_numeric(errors="coerce") on a number or None.
ToNumeric(x) == IF x.t = "int" THEN x ELSE NaN

\* pd.DataFrame(records), astype(int) on the year column, to_numeric on the
\* count column. A frame built from no records has no columns.
MakeFrame(records) ==
    IF records = <<>> THEN Raise("KeyError")
    ELSE IF \E i \in 1..Len(records) : ~CanInt(records[i].year)
    THEN Raise("ValueError")
    ELSE Ok([t |-> "df",
             rows |-> [i \in 1..Len(records) |->
                         [records[i] EXCEPT !.year = PyInt(AsInt(@)),
                                            !.count = ToNumeric(@)]]])

\* The body of the try block after response.json().
Transform(body) ==
    IF ~BodyHas(body, "dimension") \/ ~BodyHas(body, "value")
    THEN Raise("KeyError")
    ELSE LET tl == AxisLabels(body, "Tid")
             gl == AxisLabels(body, "Kjonn")
             al == AxisLabels(body, "Alder")
             tx == AxisIndices(body, "Tid")
             gx == AxisIndices(body, "Kjonn")
             ax == AxisIndices(body, "Alder")
         IN  IF ~(tl.ok /\ gl.ok /\ al.ok /\ tx.ok /\ gx.ok /\ ax.ok)
             THEN Raise("KeyError")
             ELSE LET recs == Records(tx.val, gx.val, ax.val, tl.val, al.val,
                                      body.value)
                  IN  IF recs.ok THEN MakeFrame(recs.val) ELSE recs

\* requests.post, raise_for_status and response.json(), then the transform.
TryBlock(r) ==
    CASE r.kind = "transport_error" -> Raise("ConnectionError")
      [] r.kind = "http_error" -> Raise("HTTPError")
      [] r.kind = "bad_json" -> Raise("JSONDecodeError")
      [] r.kind = "ok" -> Transform(r.body)

\* fetch_ssb_data without its cache: what it returns, the st.error messages
\* it shows (each named by its exception), whether an exception leaves it.
FetchSsbData(r) ==
    LET out == TryBlock(r) IN
    IF out.ok THEN [ret |-> out.val, errors |-> <<>>, raised |-> FALSE]
    ELSE [ret |-> None, errors |-> <<out.exc>>, raised |-> FALSE]

(***************************************************************************)
(* get_ai_insight (lines 112-137).                                         *)
(***************************************************************************)
NoKeyMessage ==
    PyStr("Vennligst oppgi en Google Gemini API-nokkel for aa generere innsikt.")

\* What the generative-text service does with a request: it answers, it
\* rejects the key, or the call fails otherwise.
AiOutcomes ==
    {[kind |-> "text", text |-> "Ledigheten falt."],
     [kind |-> "raise", text |-> "API key not valid"],
     [kind |-> "raise", text |-> "timeout"]}

\* error_message of the except branch: '"API key not valid" in str(e)' adds
\* the hint.
ErrorMessage(e) ==
    IF e = "API key not valid"
    THEN PyStr("Kunne ikke generere KI-innsikt: " \o e
               \o "\nVennligst sjekk om API-nokkelen er korrekt.")
    ELSE PyStr("Kunne ikke generere KI-innsikt: " \o e)

\* full_prompt = prompt_context + "\n\nData:\n" + data.to_string(index=False)
FullPrompt(data, prompt_context) == [prompt |-> prompt_context, data |-> data]

GetAiInsightUnguarded(key, data, prompt_context, outcome) ==
    IF outcome.kind = "text"
    THEN [ret |-> PyStr(outcome.text), configured |-> 1, called |-> 1,
          request |-> FullPrompt(data, prompt_context), raised |-> FALSE]
    ELSE [ret |-> ErrorMessage(outcome.text), configured |-> 1, called |-> 1,
          request |-> FullPrompt(data, prompt_context), raised |-> FALSE]
GetAiInsightPropagates(key, data, prompt_context, outcome) ==
    IF ~Truthy(key)
    THEN [ret |-> NoKeyMessage, configured |-> 0, called |-> 0,
          request |-> None, raised |-> FALSE]
    ELSE IF outcome.kind = "text"
    THEN [ret |-> PyStr(outcome.text), configured |-> 1, called |-> 1,
          request |-> FullPrompt(data, prompt_context), raised |-> FALSE]
    ELSE [ret |-> None, configured |-> 1, called |-> 1,
          request |-> FullPrompt(data, prompt_context), raised |-> TRUE]
\* get_ai_insight(data, prompt_context) with st.session_state's key and the
\* service's outcome: the value returned, the genai.configure and
\* generate_content calls made, the prompt sent (None when none is), and
\* whether an exception leaves the function.
GetAiInsight(key, data, prompt_context, outcome) ==
    IF ~Truthy(key)
    THEN [ret |-> NoKeyMessage, configured |-> 0, called |-> 0,
          request |-> None, raised |-> FALSE]
    ELSE IF outcome.kind = "text"
    THEN [ret |-> PyStr(outcome.text), configured |-> 1, called |-> 1,
          request |-> FullPrompt(data, prompt_context), raised |-> FALSE]
    ELSE [ret |-> ErrorMessage(outcome.text), configured |-> 1, called |-> 1,
          request |-> FullPrompt(data, prompt_context), raised |-> FALSE]

(***************************************************************************)
(* The responses the statistics API can give.                              *)
(***************************************************************************)
\* The category codes of the model, in the order the API lists them.
TidCodes == <<"2014", "2020", "2021">>
KjonnCodes == <<"0", "1", "3">>
AlderCodes == <<"15-74", "15-24">>

\* The label the API gives a code, where it gives labels.
ApiLabel(axis, code) ==
    CASE axis = "Tid" -> code
      [] axis = "Kjonn" -> IF code \in DOMAIN gender_map
                           THEN gender_map[code] ELSE "Ukjent"
      [] axis = "Alder" -> code \o " aar"

\* The subsequences of codes of length at most n.
SubSeqs(codes, n) ==
    LET Pick(ps) == [i \in 1..Len(ps) |-> codes[ps[i]]]
        positions == UNION {[1..m -> 1..Len(codes)] : m \in 0..n}
    IN  {Pick(ps) : ps \in {q \in positions :
                              \A i, j \in 1..Len(q) : i < j => q[i] < q[j]}}

\* The positions an index gives its n keys: in key order, or reversed.
ValueOrders(n) == {[i \in 1..n |-> i - 1], [i \in 1..n |-> n - i]}

\* The category index mappings over the codes.
IndexDicts(codes) ==
    UNION {{[i \in 1..Len(ks) |-> Entry(ks[i], PyInt(p[i]))] :
              p \in ValueOrders(Len(ks))} : ks \in SubSeqs(codes, MaxAxisLen)}

\* The label mappings a category can carry beside an index: none, the API's
\* labels, and (for the time axis) an empty one and labels that are no numbers.
LabelKinds(axis) ==
    CASE axis = "Tid" -> {"absent", "empty", "api", "text"}
      [] axis = "Kjonn" -> {"absent", "api"}
      [] axis = "Alder" -> {"absent", "api"}

LabelDict(axis, index, kind) ==
    IF kind = "api"
    THEN [i \in 1..Len(index) |->
            Entry(index[i].k, PyStr(ApiLabel(axis, index[i].k)))]
    ELSE IF kind = "text"
    THEN [i \in 1..Len(index) |-> Entry(index[i].k, PyStr(index[i].k \o "*"))]
    ELSE <<>>

Category(axis, index, kind) ==
    [has_index |-> TRUE,
     index |-> index,
     has_label |-> kind # "absent",
     label |-> LabelDict(axis, index, kind)]

Categories(axis, codes) ==
    {Category(axis, ix, kind) :
        ix \in IndexDicts(codes), kind \in LabelKinds(axis)}

\* The value arrays: [0, 1, ..., n-1], the arrays of the scenario, and one
\* with a missing entry.
ValueArrays ==
    {[i \in 1..n |-> PyInt(i - 1)] : n \in 0..MaxValueLen}
    \cup {<<PyInt(100), PyInt(120)>>, <<None, PyInt(7), None>>}

Body(tid, kjonn, alder, value) ==
    [has_dimension |-> TRUE, has_value |-> TRUE, axes |-> AxisNames,
     category |-> [a \in AxisNames |->
                     CASE a = "Tid" -> tid
                       [] a = "Kjonn" -> kjonn
                       [] a = "Alder" -> alder],
     value |-> value]

\* Bodies with 'dimension', the three axes with a category index, and 'value'.
WellFormedBodies ==
    {Body(t, g, a, v) : t \in Categories("Tid", TidCodes),
                        g \in Categories("Kjonn", KjonnCodes),
                        a \in Categories("Alder", AlderCodes),
                        v \in ValueArrays}

ScenarioBody ==
    Body(Category("Tid", <<Entry("2020", PyInt(0)), Entry("2021", PyInt(1))>>,
                  "absent"),
         Category("Kjonn", <<Entry("0", PyInt(0))>>, "absent"),
         Category("Alder", <<Entry("15-74", PyInt(0))>>, "absent"),
         <<PyInt(100), PyInt(120)>>)

\* Bodies of an unexpected shape: a key, an axis or an index is missing.
MalformedBodies ==
    {[ScenarioBody EXCEPT !.has_dimension = FALSE],
     [ScenarioBody EXCEPT !.has_value = FALSE]}
    \cup {[ScenarioBody EXCEPT !.axes = AxisNames \ {a}] : a \in AxisNames}
    \cup {[ScenarioBody EXCEPT !.category[a].has_index = FALSE] :
            a \in AxisNames}
    \cup {[ScenarioBody EXCEPT !.category[a].has_index = FALSE,
                               !.category[a].has_label = TRUE] :
            a \in AxisNames}

Failures ==
    {[kind |-> "transport_error"], [kind |-> "http_error"],
     [kind |-> "bad_json"]}

Responses ==
    Failures \cup {[kind |-> "ok", body |-> b] :
                     b \in WellFormedBodies \cup MalformedBodies}

NoResponse == [kind |-> "none"]

(***************************************************************************)
(* The state every specification starts from.                              *)
(***************************************************************************)
EmptyCache == [full |-> FALSE]

InitFetchState ==
    /\ resp = NoResponse
    /\ df = None
    /\ errors = <<>>
    /\ posts = 0
    /\ raised = FALSE
    /\ cache = EmptyCache
    /\ now = 0
    /\ from_cache = FALSE

InitSessionState ==
    /\ api_key_input = PyStr("")
    /\ session_key = None
    /\ session = 1
    /\ views = <<>>
    /\ insight = None
    /\ configured = 0
    /\ ai_calls = 0
    /\ ai_request = None

fetch_vars == <<resp, df, errors, posts, raised>>
cache_vars == <<cache, now, from_cache>>
session_vars == <<env_key, api_key_input, session_key, session>>
view_vars == <<views, insight, configured, ai_calls, ai_request>>

(***************************************************************************)
(* SpecFetch: fetch_ssb_data called once, on any response.                 *)
(***************************************************************************)
InitFetch ==
    /\ pc = "call"
    /\ env_key = None
    /\ InitFetchState
    /\ InitSessionState

\* One call of the undecorated fetch_ssb_data: one POST, then lines 51-109.
FetchCall ==
    /\ pc = "call"
    /\ \E r \in Responses :
         LET out == FetchSsbData(r) IN
         /\ resp' = r
         /\ posts' = posts + 1
         /\ df' = out.ret
         /\ errors' = errors \o out.errors
         /\ raised' = out.raised
    /\ pc' = "returned"
    /\ UNCHANGED <<cache_vars, session_vars, view_vars>>

NextFetch == FetchCall

SpecFetch == InitFetch /\ [][NextFetch]_vars

(***************************************************************************)
(* SpecInsight: get_ai_insight called directly, on any credential, data    *)
(* subset and prompt.                                                      *)
(***************************************************************************)
Credentials == {None, PyStr(""), PyStr("key-1"), PyStr("key-2")}

Prompts ==
    {"overall_prompt", "gender_prompt", "age_prompt", "male_age_prompt",
     "female_age_prompt"}

\* Data subsets handed to the insight generator: none, one and two rows.
DataSubsets ==
    {<<>>,
     <<[year |-> PyInt(2020), count |-> PyInt(100)]>>,
     <<[year |-> PyInt(2020), count |-> PyInt(100)],
       [year |-> PyInt(2021), count |-> NaN]>>}

InitInsight ==
    /\ pc = "ready"
    /\ env_key = None
    /\ InitFetchState
    /\ api_key_input = PyStr("")
    /\ session_key \in Credentials
    /\ session = 1
    /\ views = <<>>
    /\ insight = None
    /\ configured = 0
    /\ ai_calls = 0
    /\ ai_request = None

\* One call of get_ai_insight.
InsightCall ==
    /\ pc = "ready"
    /\ configured < MaxCalls
    /\ \E data \in DataSubsets, prompt \in Prompts, outcome \in AiOutcomes :
         LET r == GetAiInsight(session_key, data, prompt, outcome) IN
         /\ insight' = r.ret
         /\ configured' = configured + r.configured
         /\ ai_calls' = ai_calls + r.called
         /\ ai_request' = IF r.called = 1 THEN r.request ELSE ai_request
         /\ raised' = r.raised
    /\ pc' = "insight_returned"
    /\ UNCHANGED <<resp, df, errors, posts, cache_vars, session_vars, views>>

\* The caller puts another credential into session state before a next call.
SetCredential ==
    /\ pc = "insight_returned"
    /\ \E k \in Credentials : session_key' = k
    /\ pc' = "ready"
    /\ UNCHANGED <<fetch_vars, cache_vars, env_key, api_key_input, session,
                   view_vars>>

NextInsight == InsightCall \/ SetCredential

SpecInsight == InitInsight /\ [][NextInsight]_vars

\* C6: with an empty or unset credential in session state, get_ai_insight
\* returns the fixed informational string and neither configures the client
\* nor calls generate_content, for every data subset and prompt.
C6_NoCredentialNoCall ==
    [][(pc = "ready" /\ pc' = "insight_returned" /\ ~Truthy(session_key)) =>
          /\ insight' = NoKeyMessage
          /\ configured' = configured
          /\ ai_calls' = ai_calls
          /\ ai_request' = ai_request
          /\ ~raised']_vars

\* C6's case: get_ai_insight has returned the fixed string under an empty
\* credential, after an earlier call under a real one reached the service.
C6_Witness ==
    /\ pc = "insight_returned"
    /\ session_key = PyStr("")
    /\ insight = NoKeyMessage
    /\ ai_calls = 1

(***************************************************************************)
(* Properties of fetch_ssb_data, checked under SpecFetch.                  *)
(***************************************************************************)
\* The years the request asks for (payload, "Tid").
YearMin == 2015
YearMax == 2024

TimeCodes(body) == Keys(body.category["Tid"].index)
GenderCodes(body) == Keys(body.category["Kjonn"].index)
AgeCodes(body) == Keys(body.category["Alder"].index)
Combinations(body) ==
    Len(TimeCodes(body)) * Len(GenderCodes(body)) * Len(AgeCodes(body))

Returned == pc = "returned"
ReturnedTable == pc = "returned" /\ df.t = "df"
GotWellFormed ==
    pc = "returned" /\ resp.kind = "ok" /\ resp.body \in WellFormedBodies

FixedGenderLabels == {PyStr(gender_map[c]) : c \in DOMAIN gender_map}

\* C1: on the scenario body (Tid index {"2020":0,"2021":1}, Kjonn {"0":0},
\* Alder {"15-74":0}, no labels, value [100,120]) the table is exactly the two
\* records (2020, Begge kjonn, "15-74", 100) and (2021, Begge kjonn, "15-74",
\* 120): year and age group carry the category code.
C1_ScenarioRecords ==
    (Returned /\ resp = [kind |-> "ok", body |-> ScenarioBody]) =>
        df = [t |-> "df",
              rows |-> <<[year |-> PyInt(2020),
                          gender |-> PyStr("Begge kjonn"),
                          age_group |-> PyStr("15-74"),
                          count |-> PyInt(100)],
                         [year |-> PyInt(2021),
                          gender |-> PyStr("Begge kjonn"),
                          age_group |-> PyStr("15-74"),
                          count |-> PyInt(120)]>>]

\* C2: for every well-formed body the returned table has exactly
\* |time codes| * |gender codes| * |age codes| rows, whatever the length of
\* 'value'.
C2_RowCount ==
    GotWellFormed =>
        (df.t = "df" /\ Len(df.rows) = Combinations(resp.body))

\* C3: flattening is row-major, time outermost, then gender, then age group:
\* the record of the i-th time code, j-th gender code and k-th age code is
\* row p = i*G*A + j*A + k of the table and carries values[p] when
\* p < len(values) and a missing count otherwise; no read of 'value' ever
\* raises an index error.
C3_RowMajorFlattening ==
    /\ Returned => \A i \in 1..Len(errors) : errors[i] # "IndexError"
    /\ ReturnedTable =>
         LET body == resp.body
             T == Len(TimeCodes(body))
             G == Len(GenderCodes(body))
             A == Len(AgeCodes(body))
         IN  /\ Len(df.rows) = T * G * A
             /\ \A i \in 0..(T - 1), j \in 0..(G - 1), k \in 0..(A - 1) :
                  LET p == i * G * A + j * A + k
                      row == df.rows[p + 1]
                  IN  /\ row.gender = GenderLabel(GenderCodes(body)[j + 1])
                      /\ row.count =
                           IF p < Len(body.value) /\ body.value[p + 1].t = "int"
                           THEN body.value[p + 1]
                           ELSE NaN

\* C3's case: a table of several genders and age groups, with a value array
\* shorter than the table, so that some counts are read and some are missing.
C3_Witness ==
    /\ ReturnedTable
    /\ Len(GenderCodes(resp.body)) = 2
    /\ Len(AgeCodes(resp.body)) = 2
    /\ Len(resp.body.value) = 3
    /\ df.rows[3].count = PyInt(2)
    /\ df.rows[4].count = NaN

\* C4 as stated: every record of every returned table has an integer year in
\* [2015, 2024] and a gender that is one of the three fixed labels.
C4_YearAndGenderRange ==
    ReturnedTable =>
        \A n \in 1..Len(df.rows) :
            /\ df.rows[n].year.t = "int"
            /\ df.rows[n].year.v \in YearMin..YearMax
            /\ df.rows[n].gender \in FixedGenderLabels

\* C4 as amended: every record of every returned table has an integer year,
\* and its gender is the fixed label of its gender code when the code is 0, 1
\* or 2 (whatever label the API supplies) and the gender code itself
\* otherwise; neither the year's range nor the gender code is validated.
C4_IntegerYearRemappedGender ==
    ReturnedTable =>
        LET body == resp.body
            G == Len(GenderCodes(body))
            A == Len(AgeCodes(body))
        IN  \A n \in 1..Len(df.rows) :
                LET code == GenderCodes(body)[(((n - 1) \div A) % G) + 1] IN
                /\ df.rows[n].year.t = "int"
                /\ code \in {"0", "1", "2"} =>
                       /\ df.rows[n].gender \in FixedGenderLabels
                       /\ df.rows[n].gender = PyStr(gender_map[code])
                /\ code \notin {"0", "1", "2"} =>
                       df.rows[n].gender = PyStr(code)

\* C4's case: a table whose API labels are present, with a known gender code,
\* an unknown one, and a year outside the requested range.
C4_Witness ==
    /\ ReturnedTable
    /\ resp.body.category["Kjonn"].has_label
    /\ GenderCodes(resp.body) = <<"1", "3">>
    /\ \E n \in 1..Len(df.rows) : df.rows[n].gender = PyStr("Menn")
    /\ \E n \in 1..Len(df.rows) : df.rows[n].gender = PyStr("3")
    /\ \E n \in 1..Len(df.rows) : df.rows[n].year = PyInt(2014)

\* C5: a well-formed body with an empty category index on some axis yields a
\* table of zero records, with no error reported and no None returned.
C5_EmptyAxisYieldsEmptyTable ==
    (GotWellFormed /\ Combinations(resp.body) = 0) =>
        (df.t = "df" /\ df.rows = <<>> /\ errors = <<>>)

\* C7: fetch_ssb_data never lets an exception out and never half succeeds: on
\* a transport error, a non-2xx status, malformed JSON or a body of an
\* unexpected shape it shows one error and returns None; in every other case
\* it returns the complete table; and it issues one POST, never a retry.
C7_AllOrNothing ==
    Returned =>
        /\ ~raised
        /\ posts <= 1
        /\ (resp \in Failures \/ resp.body \in MalformedBodies) =>
               (df = None /\ Len(errors) = 1)
        /\ GotWellFormed =>
               /\ df.t = "df"
               /\ Len(df.rows) = Combinations(resp.body)
               /\ errors = <<>>

(***************************************************************************)
(* The page script: credential setup, cached data load, five views.        *)
(***************************************************************************)
\* @st.cache_data(ttl=3600)
TTL == 3600

\* An entry is served until ttl seconds after it was stored.
CacheValid(c, t) == c.full /\ t < c.stamp + TTL

CacheStoreSkipsNone(out, t) ==
    IF out.ret = None THEN EmptyCache
    ELSE [full |-> TRUE, value |-> out.ret, messages |-> out.errors,
          stamp |-> t]
\* What the decorator keeps of a call that returned: the value (None too)
\* and the st elements the call showed, to replay them on a hit.
CacheStore(out, t) ==
    [full |-> TRUE, value |-> out.ret, messages |-> out.errors, stamp |-> t]

\* A category index that gives its codes their positions in order.
AscIndex(codes) == [i \in 1..Len(codes) |-> Entry(codes[i], PyInt(i - 1))]

\* A body over the given codes, with or without labels, and with as many
\* values as it has combinations.
PageBody(tcodes, gcodes, acodes, kind) ==
    Body(Category("Tid", AscIndex(tcodes), kind),
         Category("Kjonn", AscIndex(gcodes), kind),
         Category("Alder", AscIndex(acodes), kind),
         [i \in 1..(Len(tcodes) * Len(gcodes) * Len(acodes)) |-> PyInt(i - 1)])

\* What the API answers a page load with: a failure, the requested table, a
\* table without women, a table without labels, a table without years.
PageResponses ==
    {[kind |-> "transport_error"]}
    \cup {[kind |-> "ok", body |-> b] :
            b \in {PageBody(<<"2020", "2021">>, <<"0", "1", "2">>,
                            <<"15-74", "15-24">>, "api"),
                   PageBody(<<"2020", "2021">>, <<"0", "1">>,
                            <<"15-74", "15-24">>, "api"),
                   PageBody(<<"2020", "2021">>, <<"0", "1", "2">>,
                            <<"15-74", "15-24">>, "absent"),
                   PageBody(<<>>, <<"0", "1", "2">>,
                            <<"15-74", "15-24">>, "api")}}

EnvKeys == {None, PyStr(""), PyStr("env-key")}
Inputs == {PyStr(""), PyStr("key-1"), PyStr("key-2")}

ViewOrder == <<"overall", "gender", "age", "male_age", "female_age">>

AgeBands == {PyStr("15-24 aar"), PyStr("25-54 aar"), PyStr("55-74 aar")}

\* The filter of each view (lines 196, 241, 289, 341, 386).
InView(v, row) ==
    CASE v = "overall" ->
           row.gender = PyStr("Begge kjonn") /\ row.age_group = PyStr("15-74 aar")
      [] v = "gender" ->
           /\ row.gender \in {PyStr("Menn"), PyStr("Kvinner")}
           /\ row.age_group = PyStr("15-74 aar")
      [] v = "age" ->
           row.gender = PyStr("Begge kjonn") /\ row.age_group \in AgeBands
      [] v = "male_age" ->
           row.gender = PyStr("Menn") /\ row.age_group \in AgeBands
      [] v = "female_age" ->
           row.gender = PyStr("Kvinner") /\ row.age_group \in AgeBands

Subset(v, rows) == SelectSeq(rows, LAMBDA row : InView(v, row))

RECURSIVE DropDuplicates(_)
\* drop_duplicates(): the first of equal rows is kept.
DropDuplicates(rows) ==
    IF rows = <<>> THEN <<>>
    ELSE LET init == DropDuplicates(SubSeq(rows, 1, Len(rows) - 1))
             last == rows[Len(rows)]
         IN  IF \E i \in 1..Len(init) : init[i] = last
             THEN init ELSE Append(init, last)

\* The columns of the subset handed to get_ai_insight by each view.
InsightData(v, subset) ==
    CASE v = "overall" ->
           [i \in 1..Len(subset) |->
              [year |-> subset[i].year, count |-> subset[i].count]]
      [] v = "gender" ->
           DropDuplicates([i \in 1..Len(subset) |->
              [year |-> subset[i].year, gender |-> subset[i].gender,
               count |-> subset[i].count]])
      [] OTHER ->
           DropDuplicates([i \in 1..Len(subset) |->
              [year |-> subset[i].year, age_group |-> subset[i].age_group,
               count |-> subset[i].count]])

PromptOf(v) == v \o "_prompt"

ResolveKeyClears(env, input, old) ==
    IF Truthy(env) THEN env ELSE IF Truthy(input) THEN input ELSE None
\* The key session state holds after lines 144-157.
ResolveKey(env, input, old) ==
    IF Truthy(env) THEN env ELSE IF Truthy(input) THEN input ELSE old

Init ==
    /\ pc = "new"
    /\ env_key \in EnvKeys
    /\ InitFetchState
    /\ InitSessionState

\* The script starts over, on a page load or after the user has touched the
\* key field (which exists once a run without an environment key has shown
\* it).
Rerun ==
    /\ pc \in {"new", "done", "aborted"}
    /\ \E inp \in Inputs :
         /\ (pc = "new" \/ Truthy(env_key)) => inp = api_key_input
         /\ api_key_input' = inp
    /\ pc' = "setup"
    /\ df' = None
    /\ errors' = <<>>
    /\ raised' = FALSE
    /\ from_cache' = FALSE
    /\ views' = <<>>
    /\ insight' = None
    /\ configured' = 0
    /\ ai_calls' = 0
    /\ ai_request' = None
    /\ UNCHANGED <<resp, posts, cache, now, env_key, session_key, session>>

\* Lines 144-157: the key goes from the environment or the input field into
\* session state.
CredentialSetup ==
    /\ pc = "setup"
    /\ session_key' = ResolveKey(env_key, api_key_input, session_key)
    /\ pc' = "load"
    /\ UNCHANGED <<fetch_vars, cache_vars, env_key, api_key_input, session,
                   view_vars>>

\* Where the script goes with what fetch_ssb_data gave it (line 185).
AfterLoad(d) == IF d.t = "df" /\ d.rows # <<>> THEN ViewOrder[1] ELSE "error_page"

\* Line 183 on a cache hit: the stored value, its st.error replayed.
LoadCached ==
    /\ pc = "load"
    /\ CacheValid(cache, now)
    /\ df' = cache.value
    /\ errors' = errors \o cache.messages
    /\ from_cache' = TRUE
    /\ pc' = AfterLoad(cache.value)
    /\ UNCHANGED <<resp, posts, raised, cache, now, session_vars, view_vars>>

\* Line 183 on a cache miss: fetch_ssb_data runs and its result is stored.
LoadFetched ==
    /\ pc = "load"
    /\ ~CacheValid(cache, now)
    /\ \E r \in PageResponses :
         LET out == FetchSsbData(r) IN
         /\ resp' = r
         /\ posts' = posts + 1
         /\ raised' = out.raised
         /\ IF out.raised
            THEN /\ pc' = "aborted"
                 /\ UNCHANGED <<df, errors, cache>>
            ELSE /\ df' = out.ret
                 /\ errors' = errors \o out.errors
                 /\ cache' = CacheStore(out, now)
                 /\ pc' = AfterLoad(out.ret)
    /\ from_cache' = FALSE
    /\ UNCHANGED <<now, session_vars, view_vars>>

NextPc(i) == IF i < Len(ViewOrder) THEN ViewOrder[i + 1] ELSE "footer"

\* One view: filter, then a warning, or the chart with its insight panel.
View(i) ==
    /\ pc = ViewOrder[i]
    /\ LET v == ViewOrder[i]
           subset == Subset(v, df.rows)
       IN  IF subset = <<>>
           THEN /\ views' = Append(views, [view |-> v, shown |-> "warning",
                                           panel |-> "none"])
                /\ pc' = NextPc(i)
                /\ UNCHANGED <<insight, configured, ai_calls, ai_request,
                               raised>>
           ELSE IF ~Truthy(session_key)
           THEN /\ views' = Append(views, [view |-> v, shown |-> "chart",
                                           panel |-> "info"])
                /\ pc' = NextPc(i)
                /\ UNCHANGED <<insight, configured, ai_calls, ai_request,
                               raised>>
           ELSE \E outcome \in AiOutcomes :
                  LET r == GetAiInsight(session_key, InsightData(v, subset),
                                        PromptOf(v), outcome)
                  IN  /\ configured' = configured + r.configured
                      /\ ai_calls' = ai_calls + r.called
                      /\ ai_request' = IF r.called = 1 THEN r.request
                                       ELSE ai_request
                      /\ raised' = r.raised
                      /\ IF r.raised
                         THEN /\ pc' = "aborted"
                              /\ UNCHANGED <<views, insight>>
                         ELSE /\ insight' = r.ret
                              /\ views' = Append(views,
                                     [view |-> v, shown |-> "chart",
                                      panel |-> IF outcome.kind = "text"
                                                THEN "insight"
                                                ELSE "insight_error"])
                              /\ pc' = NextPc(i)
    /\ UNCHANGED <<resp, df, errors, posts, cache_vars, session_vars>>

\* Lines 429-431.
Footer ==
    /\ pc = "footer"
    /\ pc' = "done"
    /\ UNCHANGED <<fetch_vars, cache_vars, session_vars, view_vars>>

\* Line 433: no table, or an empty one.
ErrorPage ==
    /\ pc = "error_page"
    /\ views' = Append(views, [view |-> "error_page", shown |-> "error",
                               panel |-> "none"])
    /\ pc' = "done"
    /\ UNCHANGED <<fetch_vars, cache_vars, session_vars, insight, configured,
                   ai_calls, ai_request>>

\* Time passes between two runs of the script.
Tick ==
    /\ pc \in {"new", "done", "aborted"}
    /\ now + TickStep <= MaxClock
    /\ now' = now + TickStep
    /\ UNCHANGED <<pc, fetch_vars, cache, from_cache, session_vars, view_vars>>

\* Another browser session opens the page: session state starts empty, the
\* cache is the process's.
NewSession ==
    /\ pc \in {"done", "aborted"}
    /\ session < MaxSessions
    /\ session' = session + 1
    /\ pc' = "new"
    /\ api_key_input' = PyStr("")
    /\ session_key' = None
    /\ views' = <<>>
    /\ insight' = None
    /\ configured' = 0
    /\ ai_calls' = 0
    /\ ai_request' = None
    /\ UNCHANGED <<fetch_vars, cache_vars, env_key>>

Next ==
    \/ Rerun
    \/ CredentialSetup
    \/ LoadCached
    \/ LoadFetched
    \/ \E i \in 1..Len(ViewOrder) : View(i)
    \/ Footer
    \/ ErrorPage
    \/ Tick
    \/ NewSession

Spec == Init /\ [][Next]_vars

(***************************************************************************)
(* Properties of the page script, checked under Spec.                      *)
(***************************************************************************)
LoadedTable == df.t = "df" /\ df.rows # <<>>
Rendering == pc \in {"overall", "gender", "age", "male_age", "female_age",
                     "footer", "done"}

\* C8: in every render that loaded a non-empty table, the five views are
\* processed in the fixed order overall, gender, age, male_age, female_age,
\* whatever happened in the earlier ones: an empty subset gives that view a
\* warning only, and an insight call that fails gives an error text in that
\* view's panel and never stops the script.
C8_AllViewsInOrder ==
    /\ ~raised
    /\ pc # "aborted"
    /\ (Rendering /\ LoadedTable) =>
         /\ Len(views) <= Len(ViewOrder)
         /\ \A i \in 1..Len(views) :
              /\ views[i].view = ViewOrder[i]
              /\ (views[i].shown = "warning") <=>
                     (Subset(ViewOrder[i], df.rows) = <<>>)
              /\ views[i].shown \in {"warning", "chart"}
         /\ (Len(views) < Len(ViewOrder)) => pc = ViewOrder[Len(views) + 1]
         /\ pc \in {"footer", "done"} => Len(views) = Len(ViewOrder)

\* C8's case: a finished render in which the first view's insight call
\* failed, later views were charted, and the last one had no data.
C8_Witness ==
    /\ pc = "done"
    /\ LoadedTable
    /\ Len(views) = 5
    /\ views[1].panel = "insight_error"
    /\ views[2].panel = "insight"
    /\ views[3].panel = "insight_error"
    /\ views[4].shown = "chart"
    /\ views[5].shown = "warning"

\* C9 as stated: within one session, once session state holds a credential no
\* later step changes it.
C9_SetOnceReadOnly ==
    [][(session' = session /\ session_key # None) =>
          session_key' = session_key]_vars

\* C9 as amended: within one session only the credential setup at the start
\* of a rerun writes the credential, and it writes the environment value when
\* there is one and otherwise the user's current input when that is not
\* empty; so a credential once set is never unset, never changes while an
\* environment value exists, and without one is replaced when the user has
\* entered another key.
C9_SetupRewritesCredential ==
    [][session' = session =>
          /\ session_key # None => session_key' # None
          /\ session_key' # session_key =>
               /\ pc = "setup"
               /\ Truthy(session_key')
               /\ session_key' = IF Truthy(env_key) THEN env_key
                                 ELSE api_key_input
          /\ (Truthy(env_key) /\ session_key # None) =>
               session_key' = session_key]_vars

\* C9's case: a rerun whose input field is empty has kept the key an earlier
\* rerun of the session took from the field.
C9_Witness ==
    /\ pc = "load"
    /\ ~Truthy(env_key)
    /\ api_key_input = PyStr("")
    /\ session_key = PyStr("key-1")

\* C10: the result of fetch_ssb_data sits in one cache cell for 3600 s: a POST
\* is issued only by a load that finds the cell empty or expired, a load
\* that finds a live entry receives the stored result (a table or None)
\* without a POST, and every result, None too, is stored when it is
\* fetched; so a cache window sees at most one POST.
C10_SingleEntryTtlCache ==
    [][/\ posts' # posts =>
            (posts' = posts + 1 /\ pc = "load" /\ ~CacheValid(cache, now))
       /\ (pc = "load" /\ pc' # "load" /\ CacheValid(cache, now)) =>
            (df' = cache.value /\ posts' = posts /\ cache' = cache)
       /\ (pc = "load" /\ pc' # "load" /\ ~CacheValid(cache, now)) =>
            (CacheValid(cache', now') /\ cache'.value = df'
             /\ cache'.stamp = now)
       /\ cache' # cache => posts' = posts + 1]_vars

\* C10's case: a second session, within the window of the first session's
\* failed fetch, has been given the cached None and no second POST was made.
C10_Witness ==
    /\ pc = "error_page"
    /\ session = 2
    /\ from_cache
    /\ df = None
    /\ posts = 1
    /\ now > cache.stamp

(***************************************************************************)
(* The axis positions of the flattening, checked under SpecFetch.          *)
(***************************************************************************)
\* The integer a category index mapping assigns to a code.
IndexValue(index, code) == DictGet(index, code, None).v

\* C11: on every axis the position fetch_ssb_data uses for a code in the
\* flat position is the integer the category index assigns to that code,
\* whatever the order of the index's keys: the record emitted for the codes
\* (t, g, a) carries values[ix(t)*G*A + ix(g)*A + ix(a)], or a missing count
\* past the end of 'value'.
C11_PositionIsIndexValue ==
    ReturnedTable =>
        LET body == resp.body
            T == Len(TimeCodes(body))
            G == Len(GenderCodes(body))
            A == Len(AgeCodes(body))
        IN  \A i \in 1..T, j \in 1..G, k \in 1..A :
                LET row == df.rows[(i - 1) * G * A + (j - 1) * A + k]
                    p == IndexValue(body.category["Tid"].index,
                                    TimeCodes(body)[i]) * G * A
                         + IndexValue(body.category["Kjonn"].index,
                                      GenderCodes(body)[j]) * A
                         + IndexValue(body.category["Alder"].index,
                                      AgeCodes(body)[k])
                IN  row.count =
                        IF p < Len(body.value) /\ body.value[p + 1].t = "int"
                        THEN body.value[p + 1]
                        ELSE NaN
====
